---- MODULE Spec2Model ----
(***************************************************************************)
(* Model of the hyperfox proxy (package proxy, src/proxy/main.go) and of   *)
(* the save.Body / save.Head Writers (package save).                       *)
(*                                                                         *)
(* One proxied exchange is a goroutine running Proxy.ServeHTTP and then    *)
(* Proxy.intercept; its position is pc[e].  Hooks are called one per step, *)
(* the body copy (io.Copy over io.MultiWriter) one destination write per   *)
(* step.                                                                   *)
(***************************************************************************)
EXTENDS Integers, Sequences, FiniteSets, TLC

\* Bounds of the model.
MaxDirectors == 2
MaxWriters == 2
MaxLoggers == 2
MaxBody == 2
NumExch == 2

Exch == 1..NumExch

\* An io.ReadCloser over a body of len bytes, or the nil interface.
NilBody == [nil |-> TRUE, len |-> 0]
NewBody(n) == [nil |-> FALSE, len |-> n]

\* ------------------------------------------------------------------------
\* http.Header: canonical keys, each with its list of values
\* (an empty list is an absent key).
HdrKeys == {"A", "B"}
HdrVals == {1, 2}

\* textproto.CanonicalMIMEHeaderKey, on the keys the model uses.
Canon(k) == IF k = "a" THEN "A" ELSE IF k = "b" THEN "B" ELSE k

EmptyHeader == [k \in HdrKeys |-> <<>>]

HSet(h, k, v) == [h EXCEPT ![Canon(k)] = <<v>>]
HAdd(h, k, v) == [h EXCEPT ![Canon(k)] = Append(@, v)]
HDel(h, k) == [h EXCEPT ![Canon(k)] = <<>>]

HKeysOf(h) == {k \in DOMAIN h : h[k] # <<>>}

RECURSIVE AddValues(_, _, _)
AddValues(h, k, vv) ==
    IF vv = <<>> THEN h ELSE AddValues(HAdd(h, k, Head(vv)), k, Tail(vv))

RECURSIVE DelKeys(_, _)
DelKeys(h, ks) ==
    IF ks = {} THEN h
    ELSE LET k == CHOOSE x \in ks : TRUE IN DelKeys(HDel(h, k), ks \ {k})

RECURSIVE AddKeys(_, _, _)
AddKeys(h, src, ks) ==
    IF ks = {} THEN h
    ELSE LET k == CHOOSE x \in ks : TRUE
         IN AddKeys(AddValues(h, k, src[k]), src, ks \ {k})

\* Variant: the entries dst already holds are kept.
copyHeaderKeep(d, src) == AddKeys(d, src, HKeysOf(src))

\* copyHeader(dst, src): delete every key of dst, then add every value of src.
copyHeader(d, src) == AddKeys(DelKeys(d, HKeysOf(d)), src, HKeysOf(src))

\* ------------------------------------------------------------------------
\* What a hook may do to the *http.Response it is handed.
DirectorFx == {"none", "err", "add", "status", "nobody"}
WriterFx == {"none", "poke"}
LoggerFx == {"none", "err", "poke"}

ApplyFx(r, fx) ==
    CASE fx = "add"    -> [r EXCEPT !.Header = HAdd(@, "b", 1)]
      [] fx = "status" -> [r EXCEPT !.StatusCode = 404]
      [] fx = "nobody" -> [r EXCEPT !.Body = NilBody]
      [] fx = "poke"   -> [r EXCEPT !.Header = HSet(@, "a", 2), !.StatusCode = 500]
      [] OTHER         -> r

\* The Writer functions: save.Body, save.Head and any other Writer.
WriterFns == {"Body", "Head", "Custom"}

\* The io.WriteCloser a Writer returns: "none" is the nil interface, "open"
\* a usable sink, "nilfile" a nil *os.File wrapped in a non-nil interface.
Body(fsOK) == IF fsOK THEN "open" ELSE "nilfile"
HeadW(fsOK) == "none"
Custom(wants) == IF wants THEN "open" ELSE "none"

WriterResult(fn, flag) ==
    CASE fn = "Body" -> Body(flag)
      [] fn = "Head" -> HeadW(flag)
      [] OTHER       -> Custom(flag)

\* The upstream body is the byte sequence 1..n.
BodyBytes(n) == [j \in 1..n |-> j]

Slice(s, from, to) == [j \in 1..(to - from + 1) |-> s[from + j - 1]]

\* ------------------------------------------------------------------------
\* The path resolver.  A string is the sequence of its characters.
PS == <<"/">>
ArchiveDir == <<"a", "r", "c", "h", "i", "v", "e">>
ClientDir == <<"c", "l", "i", "e", "n", "t">>
index == <<"i", "n", "d", "e", "x">>

\* strings.Trim(s, c)
RECURSIVE TrimLeft(_, _)
TrimLeft(s, c) == IF s # <<>> /\ Head(s) = c THEN TrimLeft(Tail(s), c) ELSE s

RECURSIVE TrimRight(_, _)
TrimRight(s, c) ==
    IF s # <<>> /\ s[Len(s)] = c THEN TrimRight(SubSeq(s, 1, Len(s) - 1), c) ELSE s

\* Variant: only the leading characters are removed.
TrimLeftOnly(s, c) == TrimLeft(s, c)

Trim(s, c) == TrimRight(TrimLeft(s, c), c)

\* path.Ext(p): the suffix from the last dot of the last element of p.
RECURSIVE ExtFrom(_, _)
ExtFrom(p, i) ==
    IF i < 1 \/ p[i] = "/" THEN <<>>
    ELSE IF p[i] = "." THEN SubSeq(p, i, Len(p))
    ELSE ExtFrom(p, i - 1)

\* Variant: the dot is looked for in the whole path.
pathExtAnywhere(p) ==
    LET dots == {i \in 1..Len(p) : p[i] = "."}
    IN IF dots = {} THEN <<>>
       ELSE SubSeq(p, CHOOSE i \in dots : \A j \in dots : j <= i, Len(p))

pathExt(p) == ExtFrom(p, Len(p))

\* mimext.Ext(contentType): the extension of a known type, else empty.
mimextExt(ct) ==
    CASE ct = "text/html" -> <<"h", "t", "m", "l">>
      [] ct = "image/png" -> <<"p", "n", "g">>
      [] OTHER            -> <<>>

\* http.Header.Get: the first value of the key, or "".
HGet(h, k) == IF h[Canon(k)] = <<>> THEN "" ELSE h[Canon(k)][1]

\* Variant: the snapshot is filed under the client's address.
ArchiveFileByClient(r) ==
    LET trimmed == Trim(r.Request.URL.Path, "/")
        file1 == IF trimmed = <<>> THEN index ELSE trimmed
    IN ArchiveDir \o PS \o r.Request.RemoteAddr \o PS \o r.Request.URL.Host
         \o PS \o file1

ArchiveFile(r) ==
    LET contentType == HGet(r.Header, "Content-Type")
        trimmed == Trim(r.Request.URL.Path, "/")
        file1 == IF trimmed = <<>> THEN index ELSE trimmed
        file2 == IF pathExt(file1) = <<>>
                 THEN file1 \o <<".">> \o mimextExt(contentType)
                 ELSE file1
        file3 == IF HGet(r.Header, "Content-Encoding") = "gzip"
                 THEN file2 \o <<".", "g", "z">>
                 ELSE file2
    IN ArchiveDir \o PS \o r.Request.URL.Host \o PS \o file3

\* fmt's %0wd for a non-negative n.
DigitChar(d) ==
    CASE d = 0 -> "0" [] d = 1 -> "1" [] d = 2 -> "2" [] d = 3 -> "3"
      [] d = 4 -> "4" [] d = 5 -> "5" [] d = 6 -> "6" [] d = 7 -> "7"
      [] d = 8 -> "8" [] OTHER -> "9"

RECURSIVE Digits(_)
Digits(n) ==
    IF n < 10 THEN <<DigitChar(n)>> ELSE Append(Digits(n \div 10), DigitChar(n % 10))

RECURSIVE PadLeft(_, _)
PadLeft(s, w) == IF Len(s) >= w THEN s ELSE PadLeft(<<"0">> \o s, w)

Fmt(n, w) == PadLeft(Digits(n), w)

\* Variant: the name stops at the second.
nowSeconds(t) ==
    Fmt(t.Year, 4) \o Fmt(t.Month, 2) \o Fmt(t.Day, 2) \o <<"-">>
      \o Fmt(t.Hour, 2) \o Fmt(t.Minute, 2) \o Fmt(t.Second, 2)
      \o <<".", "b", "i", "n">>

\* now(), for the local time t.
now(t) ==
    Fmt(t.Year, 4) \o Fmt(t.Month, 2) \o Fmt(t.Day, 2) \o <<"-">>
      \o Fmt(t.Hour, 2) \o Fmt(t.Minute, 2) \o Fmt(t.Second, 2) \o <<"-">>
      \o Fmt(t.Nanosecond, 9) \o <<".", "b", "i", "n">>

\* strings.SplitN(s, sep, 2)[0]
RECURSIVE UpTo(_, _)
UpTo(s, sep) ==
    IF s = <<>> \/ Head(s) = sep THEN <<>> ELSE <<Head(s)>> \o UpTo(Tail(s), sep)

ClientFile(r, t) ==
    LET trimmed == Trim(r.Request.URL.Path, "/")
        file == IF trimmed = <<>> THEN index ELSE trimmed
        clientAddr0 == UpTo(r.Request.RemoteAddr, ":")
    IN ClientDir \o PS \o clientAddr0 \o PS \o r.Request.URL.Host \o PS \o file
         \o PS \o now(t)

\* Variant: the Loggers run after the body copy.
FollowCopyFirst(stage, body) ==
    CASE stage = "directors" -> "writers"
      [] stage = "writers"   -> IF body.nil THEN "loggers" ELSE "copy"
      [] stage = "copy"      -> "loggers"
      [] stage = "loggers"   -> "closebody"
      [] stage = "closebody" -> IF body.nil THEN "nilpanic" ELSE "closing"
      [] OTHER               -> "done"

\* The statements of intercept in program order: the stage that follows
\* each stage (the Directors loop ends in the header/status commit).
Follow(stage, body) ==
    CASE stage = "directors" -> "writers"
      [] stage = "writers"   -> "loggers"
      [] stage = "loggers"   -> IF body.nil THEN "closebody" ELSE "copy"
      [] stage = "copy"      -> "closebody"
      [] stage = "closebody" -> IF body.nil THEN "nilpanic" ELSE "closing"
      [] OTHER               -> "done"

\* ------------------------------------------------------------------------
\* The *http.Request of an exchange. A request struct holds its Header (a
\* map) and its URL (a pointer) by reference: the struct fields Header and
\* URL are addresses into mem.
ReqHdrKeys == {"Host", "A"}
NoReqHeader == [k \in ReqHdrKeys |-> <<>>]

\* The requests the server may hand to ServeHTTP; the server has moved the
\* Host header into the Host field.
Requests ==
    [Method : {"GET", "POST"}, Proto : {"HTTP/1.0", "HTTP/1.1"}, Close : BOOLEAN,
     Host : {"h"}, Body : {"body"},
     Header : {NoReqHeader, [NoReqHeader EXCEPT !["A"] = <<"x">>]},
     URL : {[Scheme |-> "", Host |-> "", Path |-> "/a"],
            [Scheme |-> "https", Host |-> "g", Path |-> "/a"]}]

GetRequest ==
    [Method |-> "GET", Proto |-> "HTTP/1.1", Close |-> FALSE, Host |-> "h",
     Body |-> "body", Header |-> NoReqHeader,
     URL |-> [Scheme |-> "", Host |-> "", Path |-> "/a"]]

\* The struct of a request whose map and URL live at addresses "hdr", "url".
Struct(rq) == [rq EXCEPT !.Header = "hdr", !.URL = "url"]
Mem(rq) == [a \in {"hdr", "url"} |-> IF a = "hdr" THEN rq.Header ELSE rq.URL]

\* A request struct with its references followed.
Deref(st, mem) == [st EXCEPT !.Header = mem[st.Header], !.URL = mem[st.URL]]

\* ServeHTTP up to the RoundTrip call: out is a copy of the struct *req.
BuildOut(rq) ==
    LET req == Struct(rq)
        out0 == req
        out1 == [out0 EXCEPT !.Proto = "HTTP/1.1", !.Close = FALSE]
        mem1 == [Mem(rq) EXCEPT ![out1.URL].Scheme = "http"]
        mem2 == [mem1 EXCEPT ![out1.URL].Host = req.Host]
        mem3 == [mem2 EXCEPT ![out1.Header] = HAdd(@, "Host", req.Host)]
    IN [built |-> TRUE, arrived |-> rq, req |-> req, out |-> out1, mem |-> mem3]

NoReqs ==
    [built |-> FALSE, arrived |-> GetRequest, req |-> Struct(GetRequest),
     out |-> Struct(GetRequest), mem |-> Mem(GetRequest)]

\* ------------------------------------------------------------------------
\* The archive file of the resource. os.Create empties it; each open handle
\* writes at its own offset, and a write past the end leaves a hole.
\* A byte on disk records the exchange that wrote it.
Hole == [by |-> 0, b |-> 0]
Tagged(e, p) == [j \in 1..Len(p) |-> [by |-> e, b |-> p[j]]]

Longest(a, b) == IF a >= b THEN a ELSE b

WriteAt(d, off, bs) ==
    IF bs = <<>> THEN d
    ELSE [j \in 1..Longest(Len(d), off + Len(bs)) |->
            IF j > off /\ j <= off + Len(bs) THEN bs[j - off]
            ELSE IF j <= Len(d) THEN d[j] ELSE Hole]

\* os.Create(file) in save.Body
Create(d, fn, kind) == IF fn = "Body" /\ kind = "open" THEN <<>> ELSE d

\* (*os.File).Write through sink k, which has written Len(k.data) bytes.
FileWrite(d, e, k, bs) ==
    IF k.fn = "Body" /\ k.kind = "open" THEN WriteAt(d, Len(k.data), Tagged(e, bs)) ELSE d

VARIABLES
    Directors, Writers, Loggers,  \* Proxy's registration lists
    started,                      \* Proxy.Start has been called
    alive,                        \* the server process is running
    pc,                           \* position of each exchange's goroutine
    idx,                          \* loop variable i of intercept
    res,                          \* the *http.Response of each exchange
    dst,                          \* the client's http.ResponseWriter
    sinks,                        \* the io.WriteCloser of each Writer call
    wclosers,                     \* intercept's wclosers (indices into sinks)
    cp,                           \* state of io.Copy
    events,                       \* history: the calls of each exchange
    dirErr,                       \* history: Directors that returned an error
    directed,                     \* history: status/headers as the Directors left them
    added,                        \* history: the Add calls, per kind
    calls,                        \* the path resolver calls made, with their results
    reqs,                         \* the inbound and outbound *http.Request of each exchange
    disk                          \* the archive file save.Body writes to

vars == <<Directors, Writers, Loggers, started, alive, pc, idx, res, dst,
          sinks, wclosers, cp, events, dirErr, directed, added, calls,
          reqs, disk>>

regs == <<Directors, Writers, Loggers, added>>
hist == <<dirErr, directed>>

NoRes == [StatusCode |-> 0, Header |-> EmptyHeader, Body |-> NilBody]
NoDst == [hdr |-> EmptyHeader, wrote |-> 0, status |-> 0,
          sent |-> EmptyHeader, body |-> <<>>]
NoCp == [on |-> FALSE, off |-> 0, buf |-> <<>>, w |-> 0, err |-> "nil"]
NoDirected == [StatusCode |-> 0, Header |-> EmptyHeader]

InitExchanges ==
    /\ alive = TRUE
    /\ pc = [e \in Exch |-> "idle"]
    /\ idx = [e \in Exch |-> 0]
    /\ res = [e \in Exch |-> NoRes]
    /\ dst = [e \in Exch |-> NoDst]
    /\ sinks = [e \in Exch |-> <<>>]
    /\ wclosers = [e \in Exch |-> <<>>]
    /\ cp = [e \in Exch |-> NoCp]
    /\ events = [e \in Exch |-> <<>>]
    /\ dirErr = [e \in Exch |-> {}]
    /\ directed = [e \in Exch |-> NoDirected]
    /\ calls = <<>>
    /\ reqs = [e \in Exch |-> NoReqs]
    /\ disk = <<>>

\* New()
Init ==
    /\ Directors = <<>>
    /\ Writers = <<>>
    /\ Loggers = <<>>
    /\ added = [D |-> <<>>, W |-> <<>>, L |-> <<>>]
    /\ started = FALSE
    /\ InitExchanges

\* ------------------------------------------------------------------------
\* Registration.  Directors and Loggers are named by serial number, Writers
\* by the function registered.
\* Variant: the new Director is put in front of the list.
AddDirectorFront ==
    /\ ~started
    /\ Len(Directors) < MaxDirectors
    /\ LET d == Len(Directors) + 1
       IN /\ Directors' = <<d>> \o Directors
          /\ added' = [added EXCEPT !.D = Append(@, d)]
    /\ UNCHANGED <<Writers, Loggers, started, alive, pc, idx, res, dst,
                   sinks, wclosers, cp, events, hist, calls, reqs, disk>>

AddDirector ==
    /\ ~started
    /\ Len(Directors) < MaxDirectors
    /\ LET d == Len(Directors) + 1
       IN /\ Directors' = Append(Directors, d)
          /\ added' = [added EXCEPT !.D = Append(@, d)]
    /\ UNCHANGED <<Writers, Loggers, started, alive, pc, idx, res, dst,
                   sinks, wclosers, cp, events, hist, calls, reqs, disk>>

AddWriter ==
    /\ ~started
    /\ Len(Writers) < MaxWriters
    /\ \E fn \in WriterFns :
          /\ Writers' = Append(Writers, fn)
          /\ added' = [added EXCEPT !.W = Append(@, fn)]
    /\ UNCHANGED <<Directors, Loggers, started, alive, pc, idx, res, dst,
                   sinks, wclosers, cp, events, hist, calls, reqs, disk>>

AddLogger ==
    /\ ~started
    /\ Len(Loggers) < MaxLoggers
    /\ LET l == Len(Loggers) + 1
       IN /\ Loggers' = Append(Loggers, l)
          /\ added' = [added EXCEPT !.L = Append(@, l)]
    /\ UNCHANGED <<Directors, Writers, started, alive, pc, idx, res, dst,
                   sinks, wclosers, cp, events, hist, calls, reqs, disk>>

Start ==
    /\ ~started
    /\ started' = TRUE
    /\ UNCHANGED <<regs, alive, pc, idx, res, dst, sinks, wclosers, cp,
                   events, hist, calls, reqs, disk>>

\* ------------------------------------------------------------------------
\* Proxy.ServeHTTP
UpstreamHeader == [EmptyHeader EXCEPT !["A"] = <<1, 2>>]
ClientHeaders == { EmptyHeader, [EmptyHeader EXCEPT !["B"] = <<2>>] }

\* A request arrives; CH: the header entries the ResponseWriter may already
\* hold, RQ: the requests that may arrive.
ServeHTTP(e, CH, RQ) ==
    /\ started /\ alive
    /\ pc[e] = "idle"
    /\ pc' = [pc EXCEPT ![e] = "roundtrip"]
    /\ \E h \in CH : dst' = [dst EXCEPT ![e] = [NoDst EXCEPT !.hdr = h]]
    /\ \E rq \in RQ : reqs' = [reqs EXCEPT ![e] = BuildOut(rq)]
    /\ UNCHANGED <<regs, started, alive, idx, res, sinks, wclosers, cp,
                   events, hist, calls, disk>>

\* transport.RoundTrip returns a response; its Body is never nil.
RoundTripOK(e, LENS) ==
    /\ alive
    /\ pc[e] = "roundtrip"
    /\ \E n \in LENS :
          res' = [res EXCEPT ![e] =
                    [StatusCode |-> 200, Header |-> UpstreamHeader, Body |-> NewBody(n)]]
    /\ directed' = [directed EXCEPT ![e] =
                      [StatusCode |-> 200, Header |-> UpstreamHeader]]
    /\ pc' = [pc EXCEPT ![e] = "directors"]
    /\ idx' = [idx EXCEPT ![e] = 1]
    /\ UNCHANGED <<regs, started, alive, dst, sinks, wclosers, cp, events, dirErr, calls, reqs, disk>>

\* Variant: the failure ends the server process.
RoundTripFailFatal(e) ==
    /\ alive
    /\ pc[e] = "roundtrip"
    /\ pc' = [pc EXCEPT ![e] = "rtpanic"]
    /\ alive' = FALSE
    /\ UNCHANGED <<regs, started, idx, res, dst, sinks, wclosers, cp,
                   events, hist, calls, reqs, disk>>

\* err != nil: panic(err).  The panic unwinds this exchange's goroutine; the
\* http.Server started by Proxy.Start recovers it and closes the connection.
RoundTripFail(e) ==
    /\ alive
    /\ pc[e] = "roundtrip"
    /\ pc' = [pc EXCEPT ![e] = "rtpanic"]
    /\ UNCHANGED <<regs, started, alive, idx, res, dst, sinks, wclosers, cp,
                   events, hist, calls, reqs, disk>>

\* ------------------------------------------------------------------------
\* Proxy.intercept

\* Variant: intercept returns when a Director returns an error.
RunDirectorAbort(e, FX) ==
    /\ alive
    /\ pc[e] = "directors"
    /\ idx[e] <= Len(Directors)
    /\ \E fx \in FX :
          /\ res' = [res EXCEPT ![e] = ApplyFx(@, fx)]
          /\ dirErr' = [dirErr EXCEPT ![e] = IF fx = "err" THEN @ \cup {idx[e]} ELSE @]
          /\ directed' = [directed EXCEPT ![e] =
                            [StatusCode |-> ApplyFx(res[e], fx).StatusCode,
                             Header |-> ApplyFx(res[e], fx).Header]]
          /\ pc' = [pc EXCEPT ![e] = IF fx = "err" THEN "done" ELSE @]
    /\ events' = [events EXCEPT ![e] = Append(@, <<"D", Directors[idx[e]]>>)]
    /\ idx' = [idx EXCEPT ![e] = @ + 1]
    /\ UNCHANGED <<regs, started, alive, dst, sinks, wclosers, cp, calls, reqs, disk>>

RunDirector(e, FX) ==
    /\ alive
    /\ pc[e] = "directors"
    /\ idx[e] <= Len(Directors)
    /\ \E fx \in FX :
          /\ res' = [res EXCEPT ![e] = ApplyFx(@, fx)]
          /\ dirErr' = [dirErr EXCEPT ![e] = IF fx = "err" THEN @ \cup {idx[e]} ELSE @]
          /\ directed' = [directed EXCEPT ![e] =
                            [StatusCode |-> ApplyFx(res[e], fx).StatusCode,
                             Header |-> ApplyFx(res[e], fx).Header]]
    /\ events' = [events EXCEPT ![e] = Append(@, <<"D", Directors[idx[e]]>>)]
    /\ idx' = [idx EXCEPT ![e] = @ + 1]
    /\ UNCHANGED <<regs, started, alive, pc, dst, sinks, wclosers, cp, calls, reqs, disk>>

\* http.ResponseWriter.WriteHeader: the first call sends status and headers.
WriteHeader(d, code) ==
    IF d.wrote = 0
    THEN [d EXCEPT !.wrote = 1, !.status = code, !.sent = d.hdr]
    ELSE [d EXCEPT !.wrote = @ + 1]

\* copyHeader(dst.Header(), res.Header); dst.WriteHeader(res.StatusCode)
Commit(e) ==
    /\ alive
    /\ pc[e] = "directors"
    /\ idx[e] > Len(Directors)
    /\ dst' = [dst EXCEPT ![e] =
                 WriteHeader([@ EXCEPT !.hdr = copyHeader(@, res[e].Header)],
                             res[e].StatusCode)]
    /\ events' = [events EXCEPT ![e] = Append(@, <<"commit", 0>>)]
    /\ pc' = [pc EXCEPT ![e] = Follow("directors", res[e].Body)]
    /\ idx' = [idx EXCEPT ![e] = 1]
    /\ UNCHANGED <<regs, started, alive, res, sinks, wclosers, cp, hist, calls, reqs, disk>>

\* A Writer call: the returned io.WriteCloser is kept when it is not the nil
\* interface.
NewSink(fn, kind) == [fn |-> fn, kind |-> kind, data |-> <<>>, closes |-> 0]

KeepSink(ws, kind, k) == IF kind # "none" THEN Append(ws, k) ELSE ws

RunWriter(e, FX) ==
    /\ alive
    /\ pc[e] = "writers"
    /\ idx[e] <= Len(Writers)
    /\ \E flag \in BOOLEAN, fx \in FX :
          LET fn == Writers[idx[e]]
              kind == WriterResult(fn, flag)
          IN /\ sinks' = [sinks EXCEPT ![e] = Append(@, NewSink(fn, kind))]
             /\ wclosers' = [wclosers EXCEPT ![e] = KeepSink(@, kind, idx[e])]
             /\ res' = [res EXCEPT ![e] = ApplyFx(@, fx)]
             /\ events' = [events EXCEPT ![e] = Append(@, <<"W", fn>>)]
             /\ disk' = Create(disk, fn, kind)
    /\ idx' = [idx EXCEPT ![e] = @ + 1]
    /\ UNCHANGED <<regs, started, alive, pc, dst, cp, hist, calls, reqs>>

WritersDone(e) ==
    /\ alive
    /\ pc[e] = "writers"
    /\ idx[e] > Len(Writers)
    /\ pc' = [pc EXCEPT ![e] = Follow("writers", res[e].Body)]
    /\ idx' = [idx EXCEPT ![e] = 1]
    /\ UNCHANGED <<regs, started, alive, res, dst, sinks, wclosers, cp,
                   events, hist, calls, reqs, disk>>

RunLogger(e, FX) ==
    /\ alive
    /\ pc[e] = "loggers"
    /\ idx[e] <= Len(Loggers)
    /\ \E fx \in FX : res' = [res EXCEPT ![e] = ApplyFx(@, fx)]
    /\ events' = [events EXCEPT ![e] = Append(@, <<"L", Loggers[idx[e]]>>)]
    /\ idx' = [idx EXCEPT ![e] = @ + 1]
    /\ UNCHANGED <<regs, started, alive, pc, dst, sinks, wclosers, cp, hist, calls, reqs, disk>>

LoggersDone(e) ==
    /\ alive
    /\ pc[e] = "loggers"
    /\ idx[e] > Len(Loggers)
    /\ pc' = [pc EXCEPT ![e] = Follow("loggers", res[e].Body)]
    /\ idx' = [idx EXCEPT ![e] = 1]
    /\ UNCHANGED <<regs, started, alive, res, dst, sinks, wclosers, cp,
                   events, hist, calls, reqs, disk>>

\* The calls io.Copy has made so far: "copy" when it starts, "copied" when
\* it returns.
Began(e) == IF cp[e].on THEN events[e] ELSE Append(events[e], <<"copy", 0>>)
Ended(e) == Append(Began(e), <<"copied", 0>>)

\* io.Copy: one Read of the source; io.EOF ends the copy, an error too.
CopyRead(e) ==
    /\ alive
    /\ pc[e] = "copy"
    /\ cp[e].buf = <<>>
    /\ \/ /\ cp[e].off = res[e].Body.len
          /\ pc' = [pc EXCEPT ![e] = Follow("copy", res[e].Body)]
          /\ events' = [events EXCEPT ![e] = Ended(e)]
          /\ cp' = [cp EXCEPT ![e].on = TRUE]
       \/ /\ cp[e].off < res[e].Body.len
          /\ \E nr \in 1..(res[e].Body.len - cp[e].off) :
                cp' = [cp EXCEPT ![e].buf =
                         Slice(BodyBytes(res[e].Body.len), cp[e].off + 1, cp[e].off + nr),
                       ![e].w = 1, ![e].on = TRUE]
          /\ events' = [events EXCEPT ![e] = Began(e)]
          /\ UNCHANGED pc
       \/ /\ cp[e].off < res[e].Body.len
          /\ cp' = [cp EXCEPT ![e].err = "read", ![e].on = TRUE]
          /\ pc' = [pc EXCEPT ![e] = Follow("copy", res[e].Body)]
          /\ events' = [events EXCEPT ![e] = Ended(e)]
    /\ UNCHANGED <<regs, started, alive, idx, res, dst, sinks, wclosers, hist, calls, reqs, disk>>

\* The destinations of io.MultiWriter: the client, then wclosers in order.
NumDest(e) == 1 + Len(wclosers[e])

\* How many bytes of p a destination may accept: a nil *os.File accepts
\* none (os.ErrInvalid); any other may accept all or fail part-way.
Accepts(kind, p) == IF kind = "nilfile" THEN {0} ELSE 0..Len(p)

\* Variant: the byte count a Write returns is not looked at.
AfterWriteIgnore(n, p) == "next"

\* multiWriter.Write stops at the first destination that fails or writes
\* short, and io.Copy stops at the first failed Write.
AfterWrite(n, p) == IF n < Len(p) THEN "stop" ELSE "next"

\* ResponseWriter.Write sends the header first when WriteHeader was not called.
ClientWrite(d, p) ==
    LET d1 == IF d.wrote = 0 THEN WriteHeader(d, 200) ELSE d
    IN [d1 EXCEPT !.body = @ \o p]

\* Variant: the sinks are written first and the client last.
CopyWriteClientLast(e) ==
    /\ alive
    /\ pc[e] = "copy"
    /\ cp[e].buf # <<>>
    /\ LET w == cp[e].w
           p == cp[e].buf
           kind == IF w = NumDest(e) THEN "client" ELSE sinks[e][wclosers[e][w]].kind
       IN \E n \in Accepts(kind, p) :
            /\ IF w = NumDest(e)
               THEN /\ dst' = [dst EXCEPT ![e] = ClientWrite(@, SubSeq(p, 1, n))]
                    /\ UNCHANGED <<sinks, disk>>
               ELSE /\ sinks' = [sinks EXCEPT ![e][wclosers[e][w]].data =
                                    @ \o SubSeq(p, 1, n)]
                    /\ disk' = FileWrite(disk, e, sinks[e][wclosers[e][w]],
                                         SubSeq(p, 1, n))
                    /\ UNCHANGED dst
            /\ IF AfterWrite(n, p) = "stop"
               THEN /\ cp' = [cp EXCEPT ![e].err = "write"]
                    /\ pc' = [pc EXCEPT ![e] = Follow("copy", res[e].Body)]
                    /\ events' = [events EXCEPT ![e] = Ended(e)]
               ELSE /\ cp' = [cp EXCEPT ![e] =
                                IF w = NumDest(e)
                                THEN [@ EXCEPT !.off = @ + Len(p), !.buf = <<>>, !.w = 0]
                                ELSE [@ EXCEPT !.w = w + 1]]
                    /\ UNCHANGED <<pc, events>>
    /\ UNCHANGED <<regs, started, alive, idx, res, wclosers, hist, calls, reqs>>

CopyWrite(e) ==
    /\ alive
    /\ pc[e] = "copy"
    /\ cp[e].buf # <<>>
    /\ LET w == cp[e].w
           p == cp[e].buf
           kind == IF w = 1 THEN "client" ELSE sinks[e][wclosers[e][w - 1]].kind
       IN \E n \in Accepts(kind, p) :
            /\ IF w = 1
               THEN /\ dst' = [dst EXCEPT ![e] = ClientWrite(@, SubSeq(p, 1, n))]
                    /\ UNCHANGED <<sinks, disk>>
               ELSE /\ sinks' = [sinks EXCEPT ![e][wclosers[e][w - 1]].data =
                                    @ \o SubSeq(p, 1, n)]
                    /\ disk' = FileWrite(disk, e, sinks[e][wclosers[e][w - 1]],
                                         SubSeq(p, 1, n))
                    /\ UNCHANGED dst
            /\ IF AfterWrite(n, p) = "stop"
               THEN /\ cp' = [cp EXCEPT ![e].err = "write"]
                    /\ pc' = [pc EXCEPT ![e] = Follow("copy", res[e].Body)]
                    /\ events' = [events EXCEPT ![e] = Ended(e)]
               ELSE /\ cp' = [cp EXCEPT ![e] =
                                IF w = NumDest(e)
                                THEN [@ EXCEPT !.off = @ + Len(p), !.buf = <<>>, !.w = 0]
                                ELSE [@ EXCEPT !.w = w + 1]]
                    /\ UNCHANGED <<pc, events>>
    /\ UNCHANGED <<regs, started, alive, idx, res, wclosers, hist, calls, reqs>>

\* res.Body.Close(): a method call on the nil interface panics; the panic
\* unwinds intercept and ServeHTTP and is recovered by the http.Server.
CloseBody(e) ==
    /\ alive
    /\ pc[e] = "closebody"
    /\ pc' = [pc EXCEPT ![e] = Follow("closebody", res[e].Body)]
    /\ idx' = [idx EXCEPT ![e] = 1]
    /\ UNCHANGED <<regs, started, alive, res, dst, sinks, wclosers, cp,
                   events, hist, calls, reqs, disk>>

CloseSink(e) ==
    /\ alive
    /\ pc[e] = "closing"
    /\ idx[e] <= Len(wclosers[e])
    /\ sinks' = [sinks EXCEPT ![e][wclosers[e][idx[e]]].closes = @ + 1]
    /\ events' = [events EXCEPT ![e] = Append(@, <<"close", wclosers[e][idx[e]]>>)]
    /\ idx' = [idx EXCEPT ![e] = @ + 1]
    /\ UNCHANGED <<regs, started, alive, pc, res, dst, wclosers, cp, hist, calls, reqs, disk>>

Return(e) ==
    /\ alive
    /\ pc[e] = "closing"
    /\ idx[e] > Len(wclosers[e])
    /\ pc' = [pc EXCEPT ![e] = Follow("closing", res[e].Body)]
    /\ UNCHANGED <<regs, started, alive, idx, res, dst, sinks, wclosers, cp,
                   events, hist, calls, reqs, disk>>

\* ------------------------------------------------------------------------
\* One exchange in full detail, after any registration.
Next ==
    \/ AddDirector
    \/ AddWriter
    \/ AddLogger
    \/ Start
    \/ \E e \in {1} : ServeHTTP(e, ClientHeaders, {GetRequest})
    \/ \E e \in {1} : RoundTripOK(e, 0..MaxBody)
    \/ \E e \in {1} : RoundTripFail(e)
    \/ \E e \in {1} : RunDirector(e, DirectorFx)
    \/ \E e \in {1} : Commit(e)
    \/ \E e \in {1} : RunWriter(e, WriterFx)
    \/ \E e \in {1} : WritersDone(e)
    \/ \E e \in {1} : RunLogger(e, LoggerFx)
    \/ \E e \in {1} : LoggersDone(e)
    \/ \E e \in {1} : CopyRead(e)
    \/ \E e \in {1} : CopyWrite(e)
    \/ \E e \in {1} : CloseBody(e)
    \/ \E e \in {1} : CloseSink(e)
    \/ \E e \in {1} : Return(e)

Spec == Init /\ [][Next]_vars

\* ------------------------------------------------------------------------
\* The server with concurrent exchanges: one Director, the save.Body Writer
\* and one Logger are registered and Start has been called; hooks leave the
\* response alone.
InitServer ==
    /\ Directors = <<1>>
    /\ Writers = <<"Body">>
    /\ Loggers = <<1>>
    /\ added = [D |-> <<1>>, W |-> <<"Body">>, L |-> <<1>>]
    /\ started = TRUE
    /\ InitExchanges

\* The steps of exchange e once its request has arrived.
Step(e) ==
    \/ RoundTripOK(e, {1})
    \/ RoundTripFail(e)
    \/ RunDirector(e, {"none"})
    \/ Commit(e)
    \/ RunWriter(e, {"none"})
    \/ WritersDone(e)
    \/ RunLogger(e, {"none"})
    \/ LoggersDone(e)
    \/ CopyRead(e)
    \/ CopyWrite(e)
    \/ CloseBody(e)
    \/ CloseSink(e)
    \/ Return(e)

NextServer ==
    \/ \E e \in Exch : ServeHTTP(e, {EmptyHeader}, {GetRequest})
    \/ \E e \in Exch : Step(e)

\* Every goroutine that can run is eventually scheduled.
SpecServer ==
    InitServer /\ [][NextServer]_vars /\ \A e \in Exch : WF_vars(Step(e))

\* ------------------------------------------------------------------------
\* One exchange of the server, for any request that may arrive.
NextRequests ==
    \/ \E e \in {1} : ServeHTTP(e, {EmptyHeader}, Requests)
    \/ \E e \in {1} : Step(e)

SpecRequests == InitServer /\ [][NextRequests]_vars

\* Two concurrent exchanges for the same resource, with bodies of any
\* length; the goroutines interleave in any way.
Concurrent == {1, 2}

NextArchive ==
    \/ \E e \in Concurrent : ServeHTTP(e, {EmptyHeader}, {GetRequest})
    \/ \E e \in Concurrent : RoundTripOK(e, 0..MaxBody)
    \/ \E e \in Concurrent : Step(e)

SpecArchive == InitServer /\ [][NextArchive]_vars

\* ------------------------------------------------------------------------
\* The path resolver on its own: two exchanges are resolved, the second one
\* for the same resource as the first (ArchiveFile) or for any (ClientFile).
UrlPaths ==
    { <<>>, <<"/">>, <<"/", "a">>, <<"/", "a", "/">>, <<"/", "a", ".", "p">>,
      <<"/", "d", ".", "x", "/", "b">> }
UrlHosts == { <<"h">>, <<"g">> }
ContentTypes == { "", "text/html" }
ContentEncodings == { "", "gzip" }
Methods == { "GET", "POST" }
RemoteAddrs == { <<"c", ":", "1">>, <<"c", ":", "2">>, <<"d", ":", "1">> }

PathHeader(ct, ce) ==
    [k \in {"Content-Type", "Content-Encoding"} |->
        IF k = "Content-Type" THEN (IF ct = "" THEN <<>> ELSE <<ct>>)
        ELSE (IF ce = "" THEN <<>> ELSE <<ce>>)]

Responses ==
    { [Header |-> PathHeader(ct, ce),
       Request |-> [Method |-> m, RemoteAddr |-> ra,
                    URL |-> [Host |-> h, Path |-> p]]] :
        ct \in ContentTypes, ce \in ContentEncodings, m \in Methods,
        ra \in RemoteAddrs, h \in UrlHosts, p \in UrlPaths }

Noon == [Year |-> 2012, Month |-> 7, Day |-> 4, Hour |-> 12, Minute |-> 0,
         Second |-> 5, Nanosecond |-> 0]
Times == { Noon, [Noon EXCEPT !.Nanosecond = 7], [Noon EXCEPT !.Second = 6] }

SameResource(r1, r2) ==
    /\ r1.Request.URL = r2.Request.URL
    /\ r1.Header = r2.Header

SameKind(r1, r2) ==
    /\ r1.Header = r2.Header
    /\ r1.Request.Method = r2.Request.Method

CallArchiveFile ==
    /\ Len(calls) < 2
    /\ \E r \in Responses, t \in Times :
          /\ calls # <<>> =>
                calls[1].fn = "ArchiveFile" /\ SameResource(r, calls[1].r)
          /\ calls' = Append(calls, [fn |-> "ArchiveFile", r |-> r, t |-> t,
                                     out |-> ArchiveFile(r)])
    /\ UNCHANGED <<regs, started, alive, pc, idx, res, dst, sinks, wclosers,
                   cp, events, hist, reqs, disk>>

CallClientFile ==
    /\ Len(calls) < 2
    /\ \E r \in Responses, t \in Times :
          /\ calls # <<>> =>
                calls[1].fn = "ClientFile" /\ SameKind(r, calls[1].r)
          /\ calls' = Append(calls, [fn |-> "ClientFile", r |-> r, t |-> t,
                                     out |-> ClientFile(r, t)])
    /\ UNCHANGED <<regs, started, alive, pc, idx, res, dst, sinks, wclosers,
                   cp, events, hist, reqs, disk>>

NextPaths == CallArchiveFile \/ CallClientFile

SpecPaths == Init /\ [][NextPaths]_vars

\* ------------------------------------------------------------------------
\* Properties.

\* The second components of the events of kind k, in order.
RECURSIVE Of(_, _)
Of(ev, k) ==
    IF ev = <<>> THEN <<>>
    ELSE IF Head(ev)[1] = k THEN <<Head(ev)[2]>> \o Of(Tail(ev), k)
         ELSE Of(Tail(ev), k)

Kinds(ev) == [j \in 1..Len(ev) |-> ev[j][1]]

Count(ev, k) == Len(Of(ev, k))

Ended1(e) == pc[e] \in {"done", "nilpanic"}

FullBody(e) == BodyBytes(res[e].Body.len)

\* What destination d of the fan-out has received (1 is the client).
Received(e, d) ==
    IF d = 1 THEN dst[e].body ELSE sinks[e][wclosers[e][d - 1]].data

\* Stage order as the program runs it, and as section 4.3 of the
\* specification lists it.
RankCode(k) ==
    CASE k = "D" -> 1 [] k = "commit" -> 2 [] k = "W" -> 3 [] k = "L" -> 4
      [] k = "copy" -> 5 [] k = "copied" -> 6 [] OTHER -> 7

RankSpec(k) ==
    CASE k = "D" -> 1 [] k = "commit" -> 2 [] k = "W" -> 3 [] k = "copy" -> 4
      [] k = "copied" -> 5 [] k = "L" -> 6 [] OTHER -> 7

Ordered(ev, R(_)) ==
    \A i, j \in 1..Len(ev) : i < j => R(ev[i][1]) <= R(ev[j][1])

\* C1 (as claimed): the calls of an exchange occur in the order Directors,
\* commit, Writers, body copy, Loggers, sink closure.
C1_SpecOrder == \A e \in Exch : Ordered(events[e], RankSpec)

\* C1 (amended): the calls of an exchange occur in the order Directors,
\* commit, Writers, Loggers, body copy, sink closure, never interleaved; a
\* finished exchange has called every hook, committed once, copied once and
\* closed every kept sink.
C1_StageOrder ==
    \A e \in Exch :
        /\ Ordered(events[e], RankCode)
        /\ pc[e] = "done" =>
              /\ Count(events[e], "D") = Len(Directors)
              /\ Count(events[e], "commit") = 1
              /\ Count(events[e], "W") = Len(Writers)
              /\ Count(events[e], "L") = Len(Loggers)
              /\ Count(events[e], "copy") = 1
              /\ Count(events[e], "copied") = 1
              /\ Count(events[e], "close") = Len(wclosers[e])

C1_Witness ==
    /\ pc[1] = "done"
    /\ Directors = <<1, 2>> /\ Len(Writers) = 2 /\ Loggers = <<1>>
    /\ res[1].Body.len > 0
    /\ Kinds(events[1]) =
          <<"D", "D", "commit", "W", "W", "L", "copy", "copied", "close">>

\* C2: when an exchange has ended, every io.WriteCloser a Writer returned
\* non-nil has been closed exactly once, and nothing else has been closed.
C2_ClosedExactlyOnce ==
    \A e \in Exch :
        Ended1(e) =>
            \A k \in DOMAIN sinks[e] :
                sinks[e][k].closes = IF sinks[e][k].kind # "none" THEN 1 ELSE 0

\* C3: with a nil or zero-length body, an ended exchange has called every
\* Writer and every Logger, copied nothing, and closed every sink once.
C3_AbsentBody ==
    \A e \in Exch :
        (Ended1(e) /\ (res[e].Body.nil \/ res[e].Body.len = 0)) =>
            /\ Count(events[e], "W") = Len(Writers)
            /\ Count(events[e], "L") = Len(Loggers)
            /\ dst[e].body = <<>>
            /\ \A k \in DOMAIN sinks[e] :
                  sinks[e][k].kind # "none" => sinks[e][k].closes = 1

\* C4: when a write to one destination failed during the fan-out (all
\* sinks being usable ones), every other destination has still received
\* the whole upstream body.
C4_CopyContinues ==
    \A e \in Exch :
        (pc[e] = "done" /\ cp[e].err = "write"
           /\ \A k \in DOMAIN sinks[e] : sinks[e][k].kind # "nilfile") =>
            \A d \in 1..NumDest(e) :
                d # cp[e].w => Received(e, d) = FullBody(e)

\* C5: a save.Body call whose file could not be created contributes no sink
\* to the fan-out, and the client and the other sinks receive the whole body.
C5_FailedBodyAbsent ==
    \A e \in Exch :
        \A k \in DOMAIN sinks[e] :
            (sinks[e][k].fn = "Body" /\ sinks[e][k].kind = "nilfile") =>
                /\ \A j \in DOMAIN wclosers[e] : wclosers[e][j] # k
                /\ (pc[e] = "done" /\ cp[e].err = "write" /\ cp[e].w > 1
                      /\ wclosers[e][cp[e].w - 1] = k)
                   => \A d \in 1..NumDest(e) :
                         d # cp[e].w => Received(e, d) = FullBody(e)

\* The positions of an exchange inside intercept.
InIntercept == {"directors", "writers", "loggers", "copy", "closebody", "closing"}

\* C6: a failed round trip ends only its own exchange: the server process
\* stays up, no other exchange is disturbed by the failure, and every
\* exchange whose round trip succeeded is answered and runs to its end.
C6_ServerKeepsServing ==
    /\ [](alive)
    /\ [][\A e \in Exch : (pc[e] = "roundtrip" /\ pc'[e] = "rtpanic") =>
             \A f \in Exch \ {e} :
                 /\ pc'[f] = pc[f] /\ dst'[f] = dst[f]
                 /\ res'[f] = res[f] /\ events'[f] = events[f]]_vars
    /\ \A f \in Exch :
          ((\E e \in Exch : pc[e] = "rtpanic") /\ pc[f] \in InIntercept)
             ~> (pc[f] = "done" /\ dst[f].wrote = 1)

C6_Witness ==
    /\ pc[1] = "rtpanic"
    /\ pc[2] = "done"
    /\ dst[2].wrote = 1
    /\ dst[2].body = FullBody(2)
    /\ Len(dst[2].body) > 0

\* C7: after a failed round trip the client has been sent a status and
\* headers.
C7_ErrorResponse == \A e \in Exch : pc[e] = "rtpanic" => dst[e].wrote >= 1

\* C8: when a Director returned an error, the exchange still runs every
\* Director, commits, runs every Writer and every Logger, and copies the
\* body: a copy that ended without error has delivered all of it.
C8_DirectorErrorContinues ==
    \A e \in Exch :
        dirErr[e] # {} =>
            /\ pc[e] # "directors" =>
                  /\ Of(events[e], "D") = Directors
                  /\ dst[e].wrote = 1
            /\ Ended1(e) =>
                  /\ Count(events[e], "W") = Len(Writers)
                  /\ Count(events[e], "L") = Len(Loggers)
            /\ pc[e] = "done" =>
                  /\ Count(events[e], "copy") = 1
                  /\ cp[e].err = "nil" => dst[e].body = FullBody(e)

C8_Witness ==
    /\ pc[1] = "done"
    /\ dirErr[1] = {1}
    /\ Len(Directors) = 2 /\ Len(Writers) >= 1 /\ Len(Loggers) >= 1
    /\ Len(dst[1].body) > 0
    /\ dst[1].body = FullBody(1)

\* C9: status and headers are sent once, after the last Director and
\* before any Writer, Logger or body byte; what is sent is the status and
\* the header set the Directors left, and stays so whatever is done to the
\* response afterwards.
C9_CommitFinal ==
    \A e \in Exch :
        /\ dst[e].wrote <= 1
        /\ Count(events[e], "commit") = dst[e].wrote
        /\ dst[e].wrote = 0 =>
              /\ dst[e].body = <<>>
              /\ Count(events[e], "W") = 0
              /\ Count(events[e], "L") = 0
        /\ dst[e].wrote = 1 =>
              /\ Count(events[e], "D") = Len(Directors)
              /\ dst[e].status = directed[e].StatusCode
              /\ dst[e].sent = directed[e].Header

C9_Witness ==
    /\ pc[1] = "done"
    /\ dst[1].status = 404
    /\ dst[1].sent["A"] = <<1, 2>>
    /\ dst[1].sent["B"] = <<1>>
    /\ res[1].StatusCode = 500
    /\ res[1].Header # dst[1].sent
    /\ Len(dst[1].body) > 0

\* C10: the registration lists hold the hooks in the order they were added
\* and are not changed by an exchange; an ended exchange has called the
\* hooks of each kind once each, in that order.
C10_RegistrationOrder ==
    /\ Directors = added.D
    /\ Writers = added.W
    /\ Loggers = added.L
    /\ \A e \in Exch :
          Ended1(e) =>
              /\ Of(events[e], "D") = added.D
              /\ Of(events[e], "W") = added.W
              /\ Of(events[e], "L") = added.L

C10_Witness ==
    /\ pc[1] = "done"
    /\ Len(Directors) = 2 /\ Len(Loggers) = 2
    /\ Writers = <<"Head", "Body">>
    /\ Of(events[1], "W") = <<"Head", "Body">>
    /\ Of(events[1], "D") = <<1, 2>>
    /\ Of(events[1], "L") = <<1, 2>>

\* C11: no byte of the body reaches the client, and the copy does not
\* start, before every registered Logger has been called.
C11_LoggersBeforeBody ==
    \A e \in Exch :
        (dst[e].body # <<>> \/ cp[e].on) => Of(events[e], "L") = Loggers

C11_Witness ==
    /\ pc[1] = "copy"
    /\ Len(Loggers) = 2
    /\ Len(dst[1].body) = 1
    /\ Of(events[1], "L") = <<1, 2>>

IsPrefix(s, t) == Len(s) <= Len(t) /\ s = SubSeq(t, 1, Len(s))

CopyOver(e) == pc[e] \in {"closebody", "closing", "done"} /\ ~res[e].Body.nil

\* C18: a copy in which no destination write failed has made one pass
\* over the body: the client and every kept sink hold exactly the bytes
\* read, in order, and when no read failed either these are the whole body.
C18_SinglePass ==
    \A e \in Exch :
        (CopyOver(e) /\ cp[e].err # "write") =>
            /\ cp[e].buf = <<>>
            /\ cp[e].err = "nil" => cp[e].off = res[e].Body.len
            /\ \A d \in 1..NumDest(e) :
                  Received(e, d) = SubSeq(FullBody(e), 1, cp[e].off)

C18_Witness ==
    /\ pc[1] = "done"
    /\ cp[1].err = "nil"
    /\ NumDest(1) = 3
    /\ Len(dst[1].body) >= 2
    /\ \A d \in 1..3 : Received(1, d) = FullBody(1)

\* C20: at every point of the fan-out each sink holds a prefix of what the
\* client has been written, and a later sink no more than an earlier one.
C20_SinkPrefixOfClient ==
    \A e \in Exch :
        \A d \in 2..NumDest(e) :
            /\ IsPrefix(Received(e, d), dst[e].body)
            /\ d < NumDest(e) => Len(Received(e, d + 1)) <= Len(Received(e, d))

C20_Witness ==
    /\ pc[1] = "copy"
    /\ NumDest(1) = 3
    /\ cp[1].w = 3
    /\ dst[1].body = <<1>>
    /\ Received(1, 2) = <<1>>
    /\ Received(1, 3) = <<>>

\* ------------------------------------------------------------------------
\* Properties of the path resolver.
ArchiveCalls == {i \in DOMAIN calls : calls[i].fn = "ArchiveFile"}
ClientCalls == {i \in DOMAIN calls : calls[i].fn = "ClientFile"}

UrlOf(i) == calls[i].r.Request.URL
AddrOf(i) == calls[i].r.Request.RemoteAddr
IsGzip(r) == r.Header["Content-Encoding"] = <<"gzip">>
TypeOf(r) == IF r.Header["Content-Type"] = <<>> THEN "" ELSE r.Header["Content-Type"][1]

\* The path without its leading and trailing slashes, index when nothing
\* is left.
NonSlash(p) == {i \in 1..Len(p) : p[i] # "/"}
Least(S) == CHOOSE x \in S : \A y \in S : x <= y
Greatest(S) == CHOOSE x \in S : \A y \in S : x >= y
StemOf(p) ==
    IF NonSlash(p) = {} THEN index
    ELSE SubSeq(p, Least(NonSlash(p)), Greatest(NonSlash(p)))

\* The last element of the name holds a dot.
HasExtension(f) ==
    \E i \in 1..Len(f) : f[i] = "." /\ \A j \in i..Len(f) : f[j] # "/"

Gz == <<".", "g", "z">>

\* C12: two ArchiveFile calls for the same target URL, Content-Type and
\* Content-Encoding return the same path, whatever the method, the client
\* address, the time and the order of the calls.
C12_ArchiveDeterministic ==
    \A i, j \in ArchiveCalls :
        (UrlOf(i) = UrlOf(j) /\ calls[i].r.Header = calls[j].r.Header)
            => calls[i].out = calls[j].out

C12_Witness ==
    /\ Len(calls) = 2
    /\ ArchiveCalls = {1, 2}
    /\ calls[1].r.Request.Method # calls[2].r.Request.Method
    /\ AddrOf(1) # AddrOf(2)
    /\ calls[1].t # calls[2].t
    /\ calls[1].out = calls[2].out

\* C13 (as claimed): two ClientFile calls that differ in the client
\* address, the target URL or the timestamp return distinct paths.
C13_ClientDistinct ==
    \A i, j \in ClientCalls :
        (AddrOf(i) # AddrOf(j) \/ UrlOf(i) # UrlOf(j) \/ calls[i].t # calls[j].t)
            => calls[i].out # calls[j].out

\* C13 (amended): two ClientFile calls return distinct paths when they
\* differ in the client host (RemoteAddr up to its first colon), the target
\* host, the path stripped of leading and trailing slashes (index when
\* empty) or the local time down to the nanosecond.
C13_ClientDistinctByKey ==
    \A i, j \in ClientCalls :
        (\/ UpTo(AddrOf(i), ":") # UpTo(AddrOf(j), ":")
         \/ UrlOf(i).Host # UrlOf(j).Host
         \/ StemOf(UrlOf(i).Path) # StemOf(UrlOf(j).Path)
         \/ calls[i].t # calls[j].t)
            => calls[i].out # calls[j].out

C13_Witness ==
    /\ Len(calls) = 2
    /\ ClientCalls = {1, 2}
    /\ calls[1].r = calls[2].r
    /\ calls[1].t.Second = calls[2].t.Second
    /\ calls[1].t.Nanosecond # calls[2].t.Nanosecond
    /\ calls[1].out # calls[2].out

\* C14: when the type has no extension and the name has none either,
\* ArchiveFile returns the bare name, followed only by .gz under gzip.
C14_NoExtensionNoDot ==
    \A i \in ArchiveCalls :
        LET r == calls[i].r
            stem == StemOf(r.Request.URL.Path)
        IN (mimextExt(TypeOf(r)) = <<>> /\ ~HasExtension(stem)) =>
              calls[i].out = ArchiveDir \o PS \o r.Request.URL.Host \o PS \o stem
                               \o (IF IsGzip(r) THEN Gz ELSE <<>>)

\* C15: ArchiveFile returns <ArchiveDir>/<host>/<name>[.<ext>][.gz]: the
\* extension of the Content-Type exactly when the last element of the name
\* has none, then .gz exactly when the Content-Encoding is gzip.
C15_ArchiveLayout ==
    \A i \in ArchiveCalls :
        LET r == calls[i].r
            stem == StemOf(r.Request.URL.Path)
        IN calls[i].out =
              ArchiveDir \o PS \o r.Request.URL.Host \o PS \o stem
                \o (IF HasExtension(stem) THEN <<>>
                    ELSE <<".">> \o mimextExt(TypeOf(r)))
                \o (IF IsGzip(r) THEN Gz ELSE <<>>)

C15_Witness ==
    \E i \in ArchiveCalls :
        /\ UrlOf(i).Path = <<"/", "a">>
        /\ TypeOf(calls[i].r) = "text/html"
        /\ IsGzip(calls[i].r)
        /\ calls[i].out = ArchiveDir \o PS \o UrlOf(i).Host
                            \o <<"/", "a", ".", "h", "t", "m", "l", ".", "g", "z">>

\* C16: both resolvers file an exchange under index when its path is empty
\* or all slashes, and otherwise under the path without its leading and
\* trailing slashes.
C16_Stem ==
    /\ \A i \in ClientCalls :
          calls[i].out =
              ClientDir \o PS \o UpTo(AddrOf(i), ":") \o PS \o UrlOf(i).Host
                \o PS \o StemOf(UrlOf(i).Path) \o PS \o now(calls[i].t)
    /\ \A i \in ArchiveCalls :
          LET base == ArchiveDir \o PS \o UrlOf(i).Host \o PS \o StemOf(UrlOf(i).Path)
          IN /\ IsPrefix(base, calls[i].out)
             /\ \A j \in (Len(base) + 1)..Len(calls[i].out) : calls[i].out[j] # "/"

C16_Witness ==
    /\ Len(calls) = 2
    /\ ClientCalls = {1, 2}
    /\ UrlOf(1).Path = <<"/">>
    /\ UrlOf(2).Path = <<"/", "a", "/">>
    /\ IsPrefix(ClientDir \o <<"/", "c", "/", "h", "/">> \o index \o PS, calls[1].out)
    /\ IsPrefix(ClientDir \o <<"/", "c", "/", "h", "/", "a", "/", "2">>, calls[2].out)

\* ------------------------------------------------------------------------
\* Properties of the outbound request and of the archive file.

\* C17: the outbound request has the method, the header set and the body
\* of the request as it arrived and differs from it only in the protocol
\* version (HTTP/1.1), the close flag (false) and the scheme and host of
\* its URL; the inbound request's own headers and URL are as they arrived.
C17_OutboundFrame ==
    \A e \in Exch :
        reqs[e].built =>
            LET a == reqs[e].arrived
                i == Deref(reqs[e].req, reqs[e].mem)
                o == Deref(reqs[e].out, reqs[e].mem)
            IN /\ o = [a EXCEPT !.Proto = "HTTP/1.1", !.Close = FALSE,
                                !.URL.Scheme = "http", !.URL.Host = a.Host]
               /\ i.Header = a.Header
               /\ i.URL = a.URL

\* Exchange e has run to its end with its whole body written through an
\* open save.Body sink, now closed.
Saved(e) ==
    /\ pc[e] = "done"
    /\ cp[e].err = "nil"
    /\ Len(wclosers[e]) = 1
    /\ LET k == sinks[e][wclosers[e][1]]
       IN k.fn = "Body" /\ k.kind = "open" /\ k.closes = 1 /\ k.data = FullBody(e)

\* C19: once two exchanges for the same resource have both written their
\* body and closed their sink, the archive file holds the complete body of
\* one of them, every byte written by that exchange.
C19_LastWriterWins ==
    (\A e \in Concurrent : Saved(e))
        => \E e \in Concurrent : disk = Tagged(e, FullBody(e))

====
